---- MODULE Spec2Model ----
(***************************************************************************)
(* A model of src/include/event_queue.c: a growable binary min-heap of     *)
(* events keyed by the unsigned timestamp `when`.                          *)
(*                                                                         *)
(* The heap memory is modelled as far as the code can observe it: the      *)
(* block h->data points to is a sequence of `cap` slots (slot i of the C   *)
(* array is data[i+1] here), a slot malloc/realloc handed out and the code *)
(* never wrote holds Uninit, and a null h->data is isNull = TRUE.          *)
(* Behaviour the C standard leaves undefined (a null or out-of-bounds      *)
(* access) ends the run in health "segv" (the process is killed inside the *)
(* call) or "undefined" (the call returned, nothing is known about memory).*)
(*                                                                         *)
(* src/include/queue.c, the same heap over bare int keys in an array the   *)
(* caller provides, is modelled beside it in the q... variables.           *)
(***************************************************************************)
EXTENDS Integers, Sequences, FiniteSets, Bags, TLC

\* ---------------------------------------------------------------- bounds

\* timestamps pushed are 0..MaxWhen
MaxWhen == 2
\* event_queue_init is called with a capacity of at most MaxInitCap
MaxInitCap == 2
\* at most MaxPushes calls of event_queue_push in one run
MaxPushes == 4
\* the array a caller gives a struct queue has at most MaxQueueCap elements
MaxQueueCap == 4

\* count, cap and the loop indices are unsigned int and wrap modulo
\* UINT_MAX + 1. The width is the build's; TLC's integers cannot hold 2^32,
\* so the model takes the narrowest unsigned int C allows, 16 bits. Within
\* the bounds the only operation that wraps is the decrement of a count of
\* 0, which gives UINT_MAX at every width.
UINT_MOD == 65536

\* ----------------------------------------------------------------- state

VARIABLES
  count,      \* h->count
  cap,        \* h->cap
  data,       \* the block h->data points to, <<>> when there is none
  isNull,     \* h->data == NULL
  health,     \* "new" | "ok" | "dead" (init failed) | "segv" | "undefined"
  lastOp,     \* the call that produced this state
  ret,        \* what that call returned: [code, ev]
  initCap,    \* the capacity event_queue_init was called with
  nPush,      \* calls of event_queue_push so far
  inserted,   \* bag of the events whose push returned 0
  extracted,  \* the events event_queue_pop returned, in order
  run,        \* number of pops since the last push that returned 0
  wrote,      \* the slot line 50 of the last push stored to, -1 if none
  acc,        \* the slots the loop of the last push or pop went through:
              \* [path: the values of index, in order (each is stored to),
              \*  chosen: the values of swap compared with *temp, in order,
              \*  reads: the slots read]
  qcount,     \* struct queue: h->count
  qdata,      \* struct queue: the array h->data points to, <<>> before setup
  qop,        \* the last call on the struct queue: none, setup, push, pop
  qret,       \* what the last queue_pop returned
  qacc        \* the elements the last queue_push or queue_pop went through:
              \* [path: the values of index, reads: the elements read]

evars == <<count, cap, data, isNull, health, lastOp, ret, initCap, nPush,
           inserted, extracted, run, wrote, acc>>

qvars == <<qcount, qdata, qop, qret, qacc>>

vars == <<evars, qvars>>

\* A slot the code never wrote (indeterminate contents).
Uninit == [when |-> -1, data |-> 0]

\* struct event {when, occur, data}: occur is never read by the queue.
Event(w, d) == [when |-> w, data |-> d]

NoEvent == Uninit

\* a strict comparison
EVENT_CMP_LT(a, b) == a.when < b.when

\* the comparison turned round
EVENT_CMP_GE(a, b) == a.when >= b.when

\* #define EVENT_CMP(a, b) (((a).when) <= ((b).when))
EVENT_CMP(a, b) == a.when <= b.when

\* h->data[i] read and written, i a C index
Load(buf, i) == buf[i + 1]

Store(buf, i, v) == [buf EXCEPT ![i + 1] = v]

\* the block malloc(n * sizeof(struct event)) returns: n indeterminate slots
Malloc(n) == [i \in 1..n |-> Uninit]

\* a realloc that does not copy the old block
ReallocNoCopy(old, n) == [i \in 1..n |-> Uninit]

\* the block realloc(old, n * sizeof(struct event)) returns on success:
\* the old contents up to the smaller size, the rest indeterminate
Realloc(old, n) ==
  [i \in 1..n |-> IF i <= Len(old) THEN old[i] ELSE Uninit]

\* ------------------------------------------------------------- the loops

\* a walk to the root one slot at a time
ParentPrev(index) == index - 1

\* line 46: parent = (index - 1) >> 1
Parent(index) == (index - 1) \div 2

\* a holding pointer left on the root
TempSlotRoot(n) == 0

\* line 62: temp = &h->data[--h->count], the slot temp points to when n is
\* the decremented count
TempSlot(n) == n

\* a sift-up that stores the value at the free slot without the loop
SiftUpNoLoop(buf, index, value) == Store(buf, index, value)

\* event_queue_push, lines 44-50: the sift-up loop and the final store,
\* from `index` on
RECURSIVE SiftUp(_, _, _)
SiftUp(buf, index, value) ==
  IF index = 0
    THEN Store(buf, index, value)
    ELSE LET parent == Parent(index) IN
         IF EVENT_CMP(Load(buf, parent), value)
           THEN Store(buf, index, value)
           ELSE SiftUp(Store(buf, index, Load(buf, parent)), parent, value)

\* the index the loop of lines 44-49 ends at, where line 50 stores value
RECURSIVE SiftUpPos(_, _, _)
SiftUpPos(buf, index, value) ==
  IF index = 0
    THEN index
    ELSE LET parent == Parent(index) IN
         IF EVENT_CMP(Load(buf, parent), value)
           THEN index
           ELSE SiftUpPos(Store(buf, index, Load(buf, parent)), parent, value)

\* a sift-down that always takes the left child
SwapChildLeft(buf, index, n) == ((index * 2) % UINT_MOD) + 1

\* the child the sift-down compares with, line 68-71
SwapChild(buf, index, n) ==
  LET swap  == ((index * 2) % UINT_MOD) + 1
      other == swap + 1
  IN IF other < n /\ EVENT_CMP(Load(buf, other), Load(buf, swap))
       THEN other ELSE swap

\* event_queue_pop, lines 65-76: the sift-down loop and the final store,
\* from `index` on; n is h->count after the decrement, and temp points to
\* slot n of the block (it is read through the pointer each time)
RECURSIVE SiftDown(_, _, _)
SiftDown(buf, index, n) ==
  LET swap == ((index * 2) % UINT_MOD) + 1 IN
  IF swap >= n
    THEN Store(buf, index, Load(buf, TempSlot(n)))
    ELSE LET s == SwapChild(buf, index, n) IN
         IF EVENT_CMP(Load(buf, TempSlot(n)), Load(buf, s))
           THEN Store(buf, index, Load(buf, TempSlot(n)))
           ELSE SiftDown(Store(buf, index, Load(buf, s)), s, n)

\* the values index takes in the loop of lines 44-49, the last one being
\* the slot line 50 stores to
RECURSIVE PushPath(_, _, _)
PushPath(buf, index, value) ==
  IF index = 0
    THEN <<index>>
    ELSE LET parent == Parent(index) IN
         IF EVENT_CMP(Load(buf, parent), value)
           THEN <<index>>
           ELSE <<index>>
                \o PushPath(Store(buf, index, Load(buf, parent)), parent, value)

\* the executions of the loop body of lines 45-49 (the one that breaks
\* included): one for each value of index but a final 0
PushIters(path) ==
  Len(path) - (IF path[Len(path)] = 0 THEN 1 ELSE 0)

\* the slots the push loop reads (line 47, 48): the parent of each value of
\* index but 0
PushReads(path) ==
  {Parent(path[k]) : k \in {j \in DOMAIN path : path[j] # 0}}

\* the values index takes in the loop of lines 65-75, the last one being
\* the slot line 76 stores to
RECURSIVE PopPath(_, _, _)
PopPath(buf, index, n) ==
  LET swap == ((index * 2) % UINT_MOD) + 1 IN
  IF swap >= n
    THEN <<index>>
    ELSE LET s == SwapChild(buf, index, n) IN
         IF EVENT_CMP(Load(buf, TempSlot(n)), Load(buf, s))
           THEN <<index>>
           ELSE <<index>> \o PopPath(Store(buf, index, Load(buf, s)), s, n)

\* the values of swap line 72 compares with *temp, one for each execution
\* of the loop body that gets there
RECURSIVE PopChosen(_, _, _)
PopChosen(buf, index, n) ==
  LET swap == ((index * 2) % UINT_MOD) + 1 IN
  IF swap >= n
    THEN <<>>
    ELSE LET s == SwapChild(buf, index, n) IN
         IF EVENT_CMP(Load(buf, TempSlot(n)), Load(buf, s))
           THEN <<s>>
           ELSE <<s>> \o PopChosen(Store(buf, index, Load(buf, s)), s, n)

\* the slots the pop reads: slot 0 (line 58), *temp (lines 72, 76), and
\* for each value of index the children below n (lines 71, 72, 74)
PopReads(path, n) ==
  {0, TempSlot(n)}
    \cup {c \in {2 * path[k] + d : k \in DOMAIN path, d \in {1, 2}} : c < n}

\* no loop ran
NoAcc == [path |-> <<>>, chosen |-> <<>>, reads |-> {}]

\* ------------------------------------------------------- queue.c's loops

\* an element of the caller's array that was never written
QUninit == -1

\* the comparison turned round
CMP_GE(a, b) == a >= b

\* queue.c line 8: #define CMP(a, b) ((a) <= (b))
CMP(a, b) == a <= b

\* queue_push, lines 16-22: the sift-up loop and the final store
RECURSIVE QSiftUp(_, _, _)
QSiftUp(buf, index, value) ==
  IF index = 0
    THEN Store(buf, index, value)
    ELSE LET parent == (index - 1) \div 2 IN
         IF CMP(Load(buf, parent), value)
           THEN Store(buf, index, value)
           ELSE QSiftUp(Store(buf, index, Load(buf, parent)), parent, value)

\* the values index takes in queue_push, lines 16-22
RECURSIVE QPushPath(_, _, _)
QPushPath(buf, index, value) ==
  IF index = 0
    THEN <<index>>
    ELSE LET parent == (index - 1) \div 2 IN
         IF CMP(Load(buf, parent), value)
           THEN <<index>>
           ELSE <<index>>
                \o QPushPath(Store(buf, index, Load(buf, parent)), parent, value)

\* the elements queue_push reads (lines 19, 20)
QPushReads(path) ==
  {(path[k] - 1) \div 2 : k \in {j \in DOMAIN path : path[j] # 0}}

\* the child queue_pop compares with, lines 38-41
QSwapChild(buf, index, n) ==
  LET swap  == ((index * 2) % UINT_MOD) + 1
      other == swap + 1
  IN IF other < n /\ CMP(Load(buf, other), Load(buf, swap))
       THEN other ELSE swap

\* queue_pop, lines 35-46: the sift-down loop and the final store; temp is
\* the copy of line 32
RECURSIVE QSiftDown(_, _, _, _)
QSiftDown(buf, index, n, temp) ==
  LET swap == ((index * 2) % UINT_MOD) + 1 IN
  IF swap >= n
    THEN Store(buf, index, temp)
    ELSE LET s == QSwapChild(buf, index, n) IN
         IF CMP(temp, Load(buf, s))
           THEN Store(buf, index, temp)
           ELSE QSiftDown(Store(buf, index, Load(buf, s)), s, n, temp)

\* the values index takes in queue_pop, lines 35-46
RECURSIVE QPopPath(_, _, _, _)
QPopPath(buf, index, n, temp) ==
  LET swap == ((index * 2) % UINT_MOD) + 1 IN
  IF swap >= n
    THEN <<index>>
    ELSE LET s == QSwapChild(buf, index, n) IN
         IF CMP(temp, Load(buf, s))
           THEN <<index>>
           ELSE <<index>>
                \o QPopPath(Store(buf, index, Load(buf, s)), s, n, temp)

\* the elements queue_pop reads: element 0 (line 28), element n (line 32)
\* and the children below n of each value of index (lines 41, 42, 44)
QPopReads(path, n) ==
  {0, n}
    \cup {c \in {2 * path[k] + d : k \in DOMAIN path, d \in {1, 2}} : c < n}

\* ------------------------------------------------------------ operations

Init ==
  /\ count = 0
  /\ cap = 0
  /\ data = <<>>
  /\ isNull = TRUE
  /\ health = "new"
  /\ lastOp = "none"
  /\ ret = [code |-> 0, ev |-> NoEvent]
  /\ initCap = 0
  /\ nPush = 0
  /\ inserted = EmptyBag
  /\ extracted = <<>>
  /\ run = 0
  /\ wrote = -1
  /\ acc = NoAcc
  /\ qcount = 0
  /\ qdata = <<>>
  /\ qop = "none"
  /\ qret = QUninit
  /\ qacc = [path |-> <<>>, reads |-> {}]

\* the outcomes of an undefined access
UBOutcomes == {"segv", "undefined"}

\* an init that reports success whatever malloc returned
InitRetZero(mallocOk) == 0

\* lines 27-28: return 1 if malloc returned NULL, else 0
InitRet(mallocOk) == IF mallocOk THEN 0 ELSE 1

\* int event_queue_init(queue, c); mallocOk is whether malloc returned a
\* block (malloc(0) may return either)
event_queue_init(c, mallocOk) ==
  /\ health = "new"
  /\ count' = 0
  /\ cap' = c
  /\ isNull' = ~mallocOk
  /\ data' = IF mallocOk THEN Malloc(c) ELSE <<>>
  /\ health' = IF mallocOk THEN "ok" ELSE "dead"
  /\ lastOp' = "init"
  /\ ret' = [code |-> InitRet(mallocOk), ev |-> NoEvent]
  /\ initCap' = c
  /\ acc' = NoAcc
  /\ UNCHANGED <<nPush, inserted, extracted, run, wrote>>

\* no growth
GrownCapSame(c) == c

\* a growth by one slot instead of a doubling
GrownCapByOne(c) == (c + 1) % UINT_MOD

\* the growth step of event_queue_push, line 38: h->cap *= 2
GrownCap(c) == (c * 2) % UINT_MOD

\* a count advanced twice
IncTwice(c) == (c + 2) % UINT_MOD

\* h->count++ (line 44) and --h->count (line 62) on an unsigned int
Inc(c) == (c + 1) % UINT_MOD

Dec(c) == (c - 1) % UINT_MOD

\* a count advanced before the growth step
CountOnFailureInc(c) == (c + 1) % UINT_MOD

\* h->count when line 40 returns 1: line 44 has not run
CountOnFailure(c) == c

\* int event_queue_push(h, value); reallocOk is whether realloc returns a
\* block when the push calls it
event_queue_push(value, reallocOk) ==
  /\ health = "ok"
  /\ nPush < MaxPushes
  /\ nPush' = nPush + 1
  /\ UNCHANGED <<initCap, extracted>>
  /\ LET grow == (count = cap)
         cap1 == IF grow THEN GrownCap(cap) ELSE cap
         null1 == IF grow THEN ~reallocOk ELSE isNull
         data1 == IF grow
                    THEN (IF reallocOk THEN Realloc(data, cap1) ELSE <<>>)
                    ELSE data
     IN
     /\ cap' = cap1
     /\ isNull' = null1
     /\ IF grow /\ null1
          THEN \* line 40: return 1
               /\ data' = data1
               /\ count' = CountOnFailure(count)
               /\ health' = "ok"
               /\ acc' = NoAcc
               /\ lastOp' = "push_fail"
               /\ ret' = [code |-> 1, ev |-> NoEvent]
               /\ wrote' = -1
               /\ UNCHANGED <<inserted, run>>
          ELSE IF null1 \/ count >= cap1
            THEN \* the loop reads or writes through a null pointer, or
                 \* writes slot count of a block of cap1 <= count slots
                 /\ data' = data1
                 /\ count' = Inc(count)
                 /\ health' \in UBOutcomes
                 /\ acc' = NoAcc
                 /\ lastOp' = "push_ub"
                 /\ ret' = [code |-> 0, ev |-> NoEvent]
                 /\ wrote' = IF null1 THEN -1
                                      ELSE SiftUpPos(data1, count, value)
                 /\ UNCHANGED <<inserted, run>>
            ELSE /\ data' = SiftUp(data1, count, value)
                 /\ count' = Inc(count)
                 /\ wrote' = SiftUpPos(data1, count, value)
                 /\ acc' = LET path == PushPath(data1, count, value)
                           IN [path |-> path, chosen |-> <<>>,
                               reads |-> PushReads(path)]
                 /\ health' = "ok"
                 /\ lastOp' = "push_ok"
                 /\ ret' = [code |-> 0, ev |-> NoEvent]
                 /\ inserted' = inserted (+) SetToBag({value})
                 /\ run' = 0

\* struct event event_queue_pop(h)
event_queue_pop ==
  /\ health = "ok"
  /\ UNCHANGED <<cap, isNull, initCap, nPush, inserted, wrote>>
  /\ IF isNull \/ count = 0 \/ count > cap
       THEN \* line 58 reads through a null pointer or an indeterminate or
            \* missing slot 0; with count = 0 the decrement wraps and temp
            \* points outside the block
            /\ count' = Dec(count)
            /\ data' = data
            /\ health' \in UBOutcomes
            /\ acc' = NoAcc
            /\ lastOp' = "pop_ub"
            /\ ret' = [code |-> 0,
                       ev |-> IF ~isNull /\ cap > 0 THEN Load(data, 0)
                                                    ELSE NoEvent]
            /\ UNCHANGED <<extracted, run>>
       ELSE LET result == Load(data, 0)
                n == Dec(count)
            IN /\ count' = n
               /\ data' = SiftDown(data, 0, n)
               /\ acc' = LET path == PopPath(data, 0, n)
                         IN [path |-> path, chosen |-> PopChosen(data, 0, n),
                             reads |-> PopReads(path, n)]
               /\ health' = "ok"
               /\ lastOp' = "pop"
               /\ ret' = [code |-> 0, ev |-> result]
               /\ extracted' = Append(extracted, result)
               /\ run' = run + 1

\* queue.c line 3: the caller sets count = 0 and data to an array of c ints
queue_setup(c) ==
  /\ qop = "none"
  /\ qcount' = 0
  /\ qdata' = [i \in 1..c |-> QUninit]
  /\ qop' = "setup"
  /\ qacc' = [path |-> <<>>, reads |-> {}]
  /\ UNCHANGED qret

\* void queue_push(h, value), called with room left in the array (the
\* caller's duty: the function has no check and no capacity to check)
queue_push(value) ==
  /\ qop # "none"
  /\ qcount < Len(qdata)
  /\ qcount' = Inc(qcount)
  /\ qdata' = QSiftUp(qdata, qcount, value)
  /\ qop' = "push"
  /\ qacc' = LET path == QPushPath(qdata, qcount, value)
             IN [path |-> path, reads |-> QPushReads(path)]
  /\ UNCHANGED qret

\* int queue_pop(h), called on a non-empty queue (the caller's duty)
queue_pop ==
  /\ qop # "none"
  /\ qcount > 0
  /\ LET result == Load(qdata, 0)
         n == Dec(qcount)
         temp == Load(qdata, n)
     IN /\ qcount' = n
        /\ qdata' = QSiftDown(qdata, 0, n, temp)
        /\ qret' = result
        /\ qacc' = LET path == QPopPath(qdata, 0, n, temp)
                   IN [path |-> path, reads |-> QPopReads(path, n)]
  /\ qop' = "pop"

\* the events a caller pushes: any timestamp, and the payload handle of the
\* n-th push is n (the queue never reads it)
Pushable == {Event(w, nPush + 1) : w \in 0..MaxWhen}

Next ==
  \/ \E c \in 1..MaxInitCap, ok \in BOOLEAN :
       event_queue_init(c, ok) /\ UNCHANGED qvars
  \/ \E v \in Pushable, ok \in BOOLEAN :
       event_queue_push(v, ok) /\ UNCHANGED qvars
  \/ event_queue_pop /\ UNCHANGED qvars

Spec == Init /\ [][Next]_vars

\* the same, event_queue_init also called with a capacity of 0
NextZero ==
  \/ \E c \in 0..MaxInitCap, ok \in BOOLEAN :
       event_queue_init(c, ok) /\ UNCHANGED qvars
  \/ \E v \in Pushable, ok \in BOOLEAN :
       event_queue_push(v, ok) /\ UNCHANGED qvars
  \/ event_queue_pop /\ UNCHANGED qvars

SpecZero == Init /\ [][NextZero]_vars

\* a caller of queue.c alone, keeping its preconditions
NextInt ==
  \/ \E c \in 1..MaxQueueCap : queue_setup(c) /\ UNCHANGED evars
  \/ \E k \in 0..MaxWhen : queue_push(k) /\ UNCHANGED evars
  \/ queue_pop /\ UNCHANGED evars

SpecInt == Init /\ [][NextInt]_vars

\* a caller that makes the same calls, with the same keys, on a struct
\* event_queue (its allocations succeeding) and on a struct queue with an
\* array of MaxQueueCap elements
NextPair ==
  \/ \E c \in 1..MaxInitCap :
       event_queue_init(c, TRUE) /\ queue_setup(MaxQueueCap)
  \/ \E v \in Pushable : event_queue_push(v, TRUE) /\ queue_push(v.when)
  \/ event_queue_pop /\ queue_pop

SpecPair == Init /\ [][NextPair]_vars

\* ---------------------------------------------------------------- claims

\* the events in slots 0..count-1, as a bag
Live == LET idx == 1..count IN
        [e \in {data[i] : i \in idx} |-> Cardinality({i \in idx : data[i] = e})]

SeqToBag(s) ==
  [e \in {s[i] : i \in DOMAIN s} |-> Cardinality({i \in DOMAIN s : s[i] = e})]

\* the state was produced by calls that all succeeded
Successful == health = "ok" /\ lastOp \in {"init", "push_ok", "pop"}

HeapOrdered(buf, n) ==
  \A i \in 1..(n - 1) : Load(buf, (i - 1) \div 2).when <= Load(buf, i).when

NonDecreasing(s) ==
  \A i, j \in DOMAIN s : i < j => s[i].when <= s[j].when

\* every pop so far came after the last push
PushesThenPops == run = Len(extracted)

\* C1: after every push that returned 0 and every pop of a non-empty queue,
\* the timestamp of the parent of every slot 1..count-1 is <= the slot's.
C1_HeapInvariant ==
  lastOp \in {"push_ok", "pop"} => HeapOrdered(data, count)

\* C1 witness: a pop that left three events with different timestamps in a
\* block that has grown
C1_Witness ==
  /\ lastOp = "pop" /\ count = 3 /\ cap > initCap
  /\ Load(data, 0).when < Load(data, 1).when
  /\ Load(data, 2).when < Load(data, 1).when

\* C2: a pop of a non-empty queue returns an event that was in slots
\* 0..count-1 before the call, and no event there had a smaller timestamp.
C2_PopReturnsMinimum ==
  [][lastOp' = "pop" =>
       /\ \E i \in 0..(count - 1) : Load(data, i) = ret'.ev
       /\ \A i \in 0..(count - 1) : ret'.ev.when <= Load(data, i).when]_vars

\* C2 witness: the third pop in a row, leaving an event behind
C2_Witness ==
  /\ lastOp = "pop" /\ run = 3 /\ count = 1
  /\ ret.ev.when < Load(data, 0).when

\* C3: the events popped so far together with the events in slots
\* 0..count-1 are, as bags of (when, data) pairs, the events pushed so far.
C3_MultisetPreserved ==
  Successful => SeqToBag(extracted) (+) Live = inserted

\* C3 witness: pushes and pops interleaved across a growth
C3_Witness ==
  /\ lastOp = "push_ok" /\ cap > initCap /\ count = 3
  /\ Len(extracted) = 1 /\ wrote = 0

\* C4: N pushes followed by pops return nondecreasing timestamps.
C4_SortedExtraction ==
  (Successful /\ PushesThenPops) => NonDecreasing(extracted)

\* C4 witness: timestamps 2, 0, 2, 1 pushed in that order, then four pops
C4_Witness ==
  /\ Successful /\ PushesThenPops /\ count = 0
  /\ inserted = SetToBag({Event(2, 1), Event(0, 2), Event(2, 3), Event(1, 4)})
  /\ Len(extracted) = 4

\* the step is a call of event_queue_push / of event_queue_pop
IsPush == nPush' = nPush + 1

IsPop == lastOp' \in {"pop", "pop_ub"}

\* C5: a push whose growth allocation fails returns 1 and leaves capacity,
\* count, the buffer reference and the elements as they were (so the heap
\* stays ordered and the pushed event is absent).
C5_UnchangedOnFailure ==
  [][lastOp' = "push_fail" =>
       /\ ret'.code = 1
       /\ cap' = cap /\ count' = count
       /\ isNull' = isNull /\ data' = data]_vars

\* C6: a pop of an empty queue is rejected: it reads no slot, returns no
\* event and leaves count at 0.
C6_EmptyPopRejected ==
  [][(IsPop /\ count = 0) =>
       /\ health' = "ok" /\ lastOp' # "pop_ub"
       /\ ret'.code # 0 /\ ret'.ev = NoEvent
       /\ count' = 0]_vars

\* C7: after init with capacity k > 0 and k+1 pushes whose allocations
\* succeeded, all k+1 pushes returned 0, the capacity is at least 2k, and
\* the pops that follow return the k+1 events in nondecreasing timestamp
\* order, none lost.
C7_GrowthCorrect ==
  (health = "ok" /\ ~isNull /\ initCap > 0 /\ nPush = initCap + 1
     /\ PushesThenPops) =>
    /\ BagCardinality(inserted) = initCap + 1
    /\ cap >= 2 * initCap
    /\ count = initCap + 1 - Len(extracted)
    /\ NonDecreasing(extracted)
    /\ SeqToBag(extracted) (+) Live = inserted

\* C7 witness: capacity 2, timestamps 1, 0, 2 pushed in that order (as 5,
\* 2, 8), capacity 4 afterwards, and three pops returning 0, 1, 2
C7_Witness ==
  /\ health = "ok" /\ initCap = 2 /\ nPush = 3 /\ cap = 4 /\ count = 0
  /\ extracted = <<Event(0, 2), Event(1, 1), Event(2, 3)>>

\* C8: each push that returns 0 adds one to count, each pop of a non-empty
\* queue takes one away, count is the number of events pushed minus the
\* number popped, and it is 0 exactly when every event pushed was popped.
C8_CountTracksLive ==
  [][/\ lastOp' = "push_ok" => count' = count + 1
     /\ lastOp' = "pop" => count' = count - 1
     /\ Successful' =>
          /\ count' = BagCardinality(inserted') - Len(extracted')
          /\ (count' = 0) <=> (SeqToBag(extracted') = inserted')]_vars

\* C8 witness: the pop that empties a queue that has grown
C8_Witness ==
  /\ lastOp = "pop" /\ count = 0 /\ cap > initCap
  /\ Len(extracted) = 3 /\ BagCardinality(inserted) = 3

\* C9: after a push that failed on its growth allocation, a retry whose
\* allocation does not fail inserts the event.
C9_RetryAfterFailure ==
  [][(lastOp = "push_fail" /\ IsPush /\ lastOp' # "push_fail") =>
       /\ lastOp' = "push_ok" /\ health' = "ok"
       /\ count' = count + 1]_vars

\* C10: every growth step of a push gives a capacity larger than before,
\* also from a capacity of 1 or 0, and a push that returns 0 stored its
\* event in a slot below the capacity.
C10_GrowthStrictlyLarger ==
  [][/\ (IsPush /\ count = cap) => cap' > cap
     /\ (IsPush /\ ~isNull' /\ health' # "segv" /\ ret'.code = 0) =>
          (wrote' >= 0 /\ wrote' < cap')]_vars

\* C12: event_queue_init with a capacity > 0 returns 0 exactly when malloc
\* returned a block, and then count is 0 and cap the capacity asked for; it
\* returns 1 exactly when malloc returned NULL.
C12_InitReportsAllocation ==
  lastOp = "init" =>
    /\ (ret.code = 0) <=> ~isNull
    /\ (ret.code = 1) <=> isNull
    /\ ret.code = 0 => (count = 0 /\ cap = initCap /\ Len(data) = initCap)

\* C12 witness: an init of capacity 2 whose malloc failed
C12_Witness ==
  lastOp = "init" /\ initCap = 2 /\ ret.code = 1 /\ health = "dead"

\* the children of the k-th slot the last pop went through
LeftOf(k) == 2 * acc.path[k] + 1

RightOf(k) == 2 * acc.path[k] + 2

\* C13 as claimed: in a pop, when both children of a slot have the same
\* timestamp the left one is compared and promoted, and the right one is
\* taken only when its timestamp is strictly smaller than the left one's.
C13_LeftChildOnTies ==
  [][lastOp' = "pop" =>
       \A k \in DOMAIN acc'.chosen :
         LET l == LeftOf(k)' 
             r == RightOf(k)'
         IN /\ (r < count' /\ Load(data, l).when = Load(data, r).when)
                 => acc'.chosen[k] = l
            /\ acc'.chosen[k] = r
                 => (r < count' /\ Load(data, r).when < Load(data, l).when)]_vars

\* C13 as amended: in a pop, the right child is the one compared and
\* promoted exactly when it is below count and its timestamp is less than
\* or equal to the left child's; otherwise the left child is.
C13_RightChildOnTies ==
  [][lastOp' = "pop" =>
       \A k \in DOMAIN acc'.chosen :
         LET l == LeftOf(k)'
             r == RightOf(k)'
         IN /\ acc'.chosen[k] \in {l, r}
            /\ acc'.chosen[k] = r
                 <=> (r < count' /\ Load(data, r).when <= Load(data, l).when)]_vars

\* C13 witness: a pop whose loop compared *temp with the right child of the
\* root and stopped there, the two children having the same timestamp
C13_Witness ==
  /\ lastOp = "pop" /\ count = 3
  /\ acc.path = <<0>> /\ acc.chosen = <<2>>
  /\ Load(data, 1).when = Load(data, 2).when

\* the slots from i up to the root
RECURSIVE AncSet(_)
AncSet(i) == IF i = 0 THEN {0} ELSE {i} \cup AncSet((i - 1) \div 2)

\* C14: a push that returns 0 stores the event at the deepest slot p on the
\* way from slot count to the root that is the root or whose parent's
\* timestamp is <= the event's; the former occupants of the way from
\* parent(count) up to p each move to their child on the way, and every
\* other slot keeps its contents.
C14_SiftUpPlacement ==
  [][lastOp' = "push_ok" =>
       LET p == wrote'
           v == Load(data', p)
           old(i) == IF i < Len(data) THEN Load(data, i) ELSE Uninit
           par(i) == (i - 1) \div 2
           moved == {q \in AncSet(count) : q > p}
       IN /\ p \in AncSet(count)
          /\ inserted' = inserted (+) SetToBag({v})
          /\ p = 0 \/ old(par(p)).when <= v.when
          /\ \A q \in moved : old(par(q)).when > v.when
          /\ \A q \in moved : Load(data', q) = old(par(q))
          /\ \A i \in 0..(cap' - 1) :
                i \notin (moved \cup {p}) => Load(data', i) = old(i)]_vars

\* C14 witness: an event pushed at slot 3 that moved up to slot 1 and
\* stayed below a root of the same timestamp
C14_Witness ==
  /\ lastOp = "push_ok" /\ count = 4 /\ wrote = 1
  /\ Load(data, 0).when = Load(data, 1).when
  /\ Load(data, 1).when < Load(data, 3).when

\* C15: a push changes cap only when count = cap before the call, and then
\* to twice its value; a pop never changes cap.
C15_CapacityOnlyDoubles ==
  [][/\ IsPush => cap' = (IF count = cap THEN 2 * cap ELSE cap)
     /\ IsPop => cap' = cap]_vars

\* C15 witness: a queue of capacity 1 that doubled twice and was emptied
C15_Witness ==
  /\ lastOp = "pop" /\ initCap = 1 /\ cap = 4 /\ count = 0

\* C16: a push that fails on its growth allocation leaves count as it was.
C16_CountKeptOnFailure ==
  [][lastOp' = "push_fail" => count' = count]_vars

\* C16 witness: a failed push on a full queue of two events
C16_Witness ==
  lastOp = "push_fail" /\ ret.code = 1 /\ count = 2

RECURSIVE Log2Floor(_)
Log2Floor(n) == IF n <= 1 THEN 0 ELSE 1 + Log2Floor(n \div 2)

\* C17: in a push that returns 0 index strictly decreases from count and
\* the loop body runs at most floor(log2(count)) + 1 times (not at all for
\* count = 0); in a pop of a non-empty queue index strictly increases from
\* 0 and the loop body runs at most floor(log2(count)) + 1 times; count is
\* the count before the call.
C17_LoopsTerminate ==
  [][/\ lastOp' = "push_ok" =>
          LET path == acc'.path IN
          /\ path[1] = count
          /\ \A k \in 1..(Len(path) - 1) : path[k + 1] < path[k]
          /\ PushIters(path)
               <= (IF count = 0 THEN 0 ELSE Log2Floor(count) + 1)
     /\ lastOp' = "pop" =>
          LET path == acc'.path IN
          /\ path[1] = 0
          /\ \A k \in 1..(Len(path) - 1) : path[k + 1] > path[k]
          /\ Len(path) <= Log2Floor(count) + 1]_vars

\* C17 witness: a push at slot 3 that went up to the root in two
\* executions of the loop body
C17_Witness ==
  lastOp = "push_ok" /\ acc.path = <<3, 1, 0>>

\* the slots the last call read or stored to
Touched == acc.reads \cup {acc.path[k] : k \in DOMAIN acc.path}

\* C19: from a queue made with a capacity > 0 by calls that all succeeded,
\* a push whose allocation succeeds and a pop of a non-empty queue have
\* defined behaviour, leave count <= cap, and read and store only slots
\* below cap.
C19_BoundsInvariant ==
  [][(Successful /\ ~isNull' /\ (IsPush \/ (IsPop /\ count > 0))) =>
       /\ health' = "ok"
       /\ count' <= cap' /\ Len(data') = cap'
       /\ \A i \in Touched' : 0 <= i /\ i < cap']_vars

\* C19 witness: a push that filled the last slot of a grown block
C19_Witness ==
  /\ lastOp = "push_ok" /\ cap = 4 /\ count = 4 /\ cap > initCap
  /\ 3 \in Touched

\* C20: in a pop of a non-empty queue every store of the loop goes to a
\* slot below the decremented count, so the slot temp points to is not
\* stored to before line 76, and the event line 76 stores is the one that
\* was in slot count-1 before the call.
C20_HoldingSlotKept ==
  [][lastOp' = "pop" =>
       LET path == acc'.path IN
       /\ \A k \in 1..(Len(path) - 1) : path[k] < count'
       /\ Load(data', path[Len(path)]) = Load(data, count - 1)
       /\ Load(data', count') = Load(data, count - 1)]_vars

\* C20 witness: a pop that promoted the right child of the root and stored
\* the held event in slot 2
C20_Witness ==
  /\ lastOp = "pop" /\ count = 3 /\ acc.path = <<0, 2>>
  /\ Load(data, 2) = Load(data, 3)

\* the keys in elements 0..n-1 of a struct queue's array, as a bag
QLive(buf, n) ==
  [k \in {buf[i] : i \in 1..n} |-> Cardinality({i \in 1..n : buf[i] = k})]

\* C11: with room left before every queue_push and count > 0 before every
\* queue_pop, after each of them every element 1..count-1 is >= its parent
\* and only elements of the array were read or written; each queue_pop
\* returns a key that was present, no present key is smaller, and exactly
\* one occurrence of it is gone.
C11_IntHeapCorrect ==
  [][/\ qop' \in {"push", "pop"} =>
          /\ \A i \in 1..(qcount' - 1) :
                Load(qdata', (i - 1) \div 2) <= Load(qdata', i)
          /\ \A i \in qacc'.reads \cup
                        {qacc'.path[k] : k \in DOMAIN qacc'.path} :
                0 <= i /\ i < Len(qdata')
     /\ qop' = "pop" =>
          /\ \A i \in 0..(qcount - 1) : qret' <= Load(qdata, i)
          /\ QLive(qdata', qcount') (+) SetToBag({qret'})
               = QLive(qdata, qcount)]_vars

\* C11 witness: a pop from a full array of four keys, two of them equal to
\* the key returned
C11_Witness ==
  /\ qop = "pop" /\ Len(qdata) = 4 /\ qcount = 3
  /\ qacc.path = <<0, 1>>
  /\ qret = Load(qdata, 0) /\ qret < Load(qdata, 2)

\* C18: under the same calls with the same keys, the struct queue and the
\* struct event_queue have the same count and the same keys in elements
\* 0..count-1, and each pop returns the same key from both.
C18_SameAlgorithm ==
  qop # "none" =>
    /\ count = qcount
    /\ \A i \in 0..(count - 1) : Load(qdata, i) = Load(data, i).when
    /\ (lastOp = "pop") <=> (qop = "pop")
    /\ lastOp = "pop" => qret = ret.ev.when

\* C18 witness: both popped after four pushes across two growths of the
\* event queue, and both promoted the right child of the root
C18_Witness ==
  /\ lastOp = "pop" /\ qop = "pop" /\ initCap = 1 /\ cap = 4
  /\ count = 3 /\ acc.path = <<0, 2>> /\ qacc.path = <<0, 2>>

====
